---- MODULE Spec2Model ----
(***************************************************************************)
(* Model of imagej_parse/parse.py: the pipeline run by main().             *)
(*   count_rows / count_frames  -> shape inference                         *)
(*   file_parse                 -> frames x ROI grid fill, then transpose  *)
(*   write_file                 -> tab-delimited output                    *)
(*   select_cells_with_activity -> range filter                            *)
(* The input file is a sequence of lines, each already split into cells:   *)
(* line 1 is the header (field names), the others hold integers.  An       *)
(* output file is a sequence of lines, each a sequence of tab-terminated   *)
(* fields; the last line of the sequence is the one still being written.   *)
(***************************************************************************)
EXTENDS Integers, Sequences, FiniteSets, TLC

VARIABLES
    inputLines,         \* content of INPUTFILE
    threshold,          \* activity_threshhold passed to main
    pc,                 \* position in main and the functions it calls
    err,                \* the uncaught exception, if any
    n_roi, n_frames,    \* results of count_rows / count_frames
    frame_idx, data_idx,\* column positions found in the header
    data_matrix,        \* file_parse: frames x ROI grid
    writes,             \* history: number of assignments to each grid cell
    idx,                \* file_parse: index of the next line of the file
    roi_ctr, frame_ctr, prev_frame,
    raw_data,           \* main: result of file_parse
    cleaned_data,       \* select_cells_with_activity: rows kept so far
    fidx,               \* select_cells_with_activity: next row to look at
    threshholded_data,  \* main: result of select_cells_with_activity
    target,             \* which output file write_file was called for
    widx,               \* write_file: next row to write
    out,                \* content of the two output files
    openFiles,          \* output files currently open
    printed             \* main printed its final message

vars == <<inputLines, threshold, pc, err, n_roi, n_frames, frame_idx, data_idx,
          data_matrix, writes, idx, roi_ctr, frame_ctr, prev_frame, raw_data,
          cleaned_data, fidx, threshholded_data, target, widx, out, openFiles,
          printed>>

----------------------------------------------------------------------------
(* Bounds of the model and configuration of the script *)

MaxRecords == 6

FrameIds == {1, 2}
Values == {0, 1}
Thresholds == {1, 2}

FRAME_HEADER == "Slice"
DATA_TO_EXTRACT == "IntDen"
ROW_LABEL == "roi"
COLUMN_LABEL == "frame"

\* Python's None, for a grid cell never assigned and for a function that
\* falls off its end; every value read from a file is >= 0.
None == -1

NoErr == [type |-> "none", in |-> "none"]
Raise(type, where) == [type |-> type, in |-> where]

\* An output file that was never opened
NoFile == <<>>

Headers == { <<"IntDen", "Area", "Slice">>,
             <<"Slice", "Area">>, <<"Area", "IntDen">>, <<"Area">> }

\* A data line laid out under the header h
DataLine(h, frame, value) ==
    [c \in 1..Len(h) |-> IF h[c] = FRAME_HEADER THEN frame
                         ELSE IF h[c] = DATA_TO_EXTRACT THEN value
                         ELSE 0]

SeqsUpTo(S, n) == UNION { [1..k -> S] : k \in 0..n }

----------------------------------------------------------------------------
(* Helpers of the script *)

\* list.index: zero-based position of the first occurrence, None if absent
\* (where Python raises ValueError)
ListIndex(s, x) ==
    IF \E i \in 1..Len(s) : s[i] = x
    THEN (CHOOSE i \in 1..Len(s) : s[i] = x /\ \A j \in 1..(i-1) : s[j] # x) - 1
    ELSE None

\* Mutant: a missing field is looked up at position 0 instead of raising
get_indices_from_header_Default(header_row) ==
    LET f == ListIndex(header_row, FRAME_HEADER)
        d == ListIndex(header_row, DATA_TO_EXTRACT)
    IN  [err |-> NoErr,
         frame_idx |-> IF f = None THEN 0 ELSE f,
         data_idx |-> IF d = None THEN 0 ELSE d]

get_indices_from_header(header_row) ==
    LET f == ListIndex(header_row, FRAME_HEADER)
        d == ListIndex(header_row, DATA_TO_EXTRACT)
    IN  IF f = None \/ d = None
        THEN [err |-> Raise("ValueError", "get_indices_from_header"),
              frame_idx |-> None, data_idx |-> None]
        ELSE [err |-> NoErr, frame_idx |-> f, data_idx |-> d]

extract_from_line(line, row_delim_idx, d_idx) ==
    <<line[row_delim_idx + 1], line[d_idx + 1]>>

\* The body of count_rows' loop from line index i (zero-based) on
RECURSIVE count_rows_loop(_, _, _)
count_rows_loop(lines, i, delim) ==
    IF i >= Len(lines) THEN None
    ELSE LET slice_num == extract_from_line(lines[i + 1], delim, delim)[1]
             initial_slice_num == extract_from_line(lines[2], delim, delim)[1]
         IN  IF i >= 2 /\ slice_num # initial_slice_num
             THEN i - 1
             ELSE count_rows_loop(lines, i + 1, delim)

count_rows(lines) ==
    IF Len(lines) = 0 THEN [err |-> NoErr, val |-> None]
    ELSE LET h == get_indices_from_header(lines[1])
         IN  IF h.err # NoErr THEN [err |-> h.err, val |-> None]
             ELSE [err |-> NoErr, val |-> count_rows_loop(lines, 1, h.frame_idx)]

\* The body of count_frames' loop from line index i (zero-based) on
RECURSIVE count_frames_loop(_, _, _, _, _)
count_frames_loop(lines, i, fi, prev_frame_num, frame_counter) ==
    IF i >= Len(lines) THEN frame_counter
    ELSE LET frame_num == extract_from_line(lines[i + 1], fi, fi)[1]
         IN  IF i = 1
             THEN count_frames_loop(lines, i + 1, fi, frame_num, 1)
             ELSE IF frame_num # prev_frame_num
                  THEN count_frames_loop(lines, i + 1, fi, frame_num, frame_counter + 1)
                  ELSE count_frames_loop(lines, i + 1, fi, prev_frame_num, frame_counter)

\* Mutant: the counter starts at 0 on the first record
count_frames_FromZero(lines) ==
    LET h == IF Len(lines) = 0 THEN [err |-> NoErr, frame_idx |-> 0, data_idx |-> 0]
             ELSE get_indices_from_header(lines[1])
    IN  IF h.err # NoErr THEN [err |-> h.err, val |-> None]
        ELSE IF Len(lines) <= 1
             THEN [err |-> Raise("UnboundLocalError", "count_frames"), val |-> None]
             ELSE [err |-> NoErr,
                   val |-> count_frames_loop(lines, 1, h.frame_idx, None, None) - 1]

count_frames(lines) ==
    LET h == IF Len(lines) = 0 THEN [err |-> NoErr, frame_idx |-> 0, data_idx |-> 0]
             ELSE get_indices_from_header(lines[1])
    IN  IF h.err # NoErr THEN [err |-> h.err, val |-> None]
        ELSE IF Len(lines) <= 1
             THEN [err |-> Raise("UnboundLocalError", "count_frames"), val |-> None]
             ELSE [err |-> NoErr,
                   val |-> count_frames_loop(lines, 1, h.frame_idx, None, None)]

Min2(a, b) == IF a <= b THEN a ELSE b

RECURSIVE MinLen(_)
MinLen(list_of_lists) ==
    IF Len(list_of_lists) = 1 THEN Len(list_of_lists[1])
    ELSE Min2(Len(list_of_lists[1]), MinLen(Tail(list_of_lists)))

\* Mutant: the grid returned as it is, frame-major
transpose_Identity(list_of_lists) == list_of_lists

transpose(list_of_lists) ==
    IF list_of_lists = <<>> THEN <<>>
    ELSE [j \in 1..MinLen(list_of_lists) |->
             [i \in 1..Len(list_of_lists) |-> list_of_lists[i][j]]]

----------------------------------------------------------------------------
(* Initial states: the script is started on some input file *)

Init ==
    /\ \/ inputLines = <<>>
       \/ \E h \in Headers, frames \in SeqsUpTo(FrameIds, MaxRecords) :
            \E values \in [1..Len(frames) -> Values] :
               inputLines = <<h>> \o [k \in 1..Len(frames) |->
                                         DataLine(h, frames[k], values[k])]
    /\ threshold \in Thresholds
    /\ pc = "main"
    /\ err = NoErr
    /\ n_roi = None /\ n_frames = None
    /\ frame_idx = None /\ data_idx = None
    /\ data_matrix = <<>> /\ writes = <<>>
    /\ idx = 0 /\ roi_ctr = 0 /\ frame_ctr = 0 /\ prev_frame = None
    /\ raw_data = <<>> /\ cleaned_data = <<>> /\ fidx = 0
    /\ threshholded_data = <<>>
    /\ target = "none" /\ widx = 0
    /\ out = [f \in {"raw", "threshholded"} |-> NoFile]
    /\ openFiles = {}
    /\ printed = FALSE

\* The worked example: 2 ROIs, 3 frames, the six values in any order
ExampleHeader == <<"Slice", "IntDen">>
ExampleFrames == <<1, 1, 2, 2, 3, 3>>
ExampleValues == <<1, 5, 2, 9, 3, 20>>
ExampleValueSet == {1, 2, 3, 5, 9, 20}

InitExample ==
    /\ \E values \in [1..6 -> ExampleValueSet] :
          /\ \A i, j \in 1..6 : values[i] = values[j] => i = j
          /\ inputLines = <<ExampleHeader>> \o
                 [k \in 1..6 |-> DataLine(ExampleHeader, ExampleFrames[k], values[k])]
    /\ threshold = 15
    /\ pc = "main"
    /\ err = NoErr
    /\ n_roi = None /\ n_frames = None
    /\ frame_idx = None /\ data_idx = None
    /\ data_matrix = <<>> /\ writes = <<>>
    /\ idx = 0 /\ roi_ctr = 0 /\ frame_ctr = 0 /\ prev_frame = None
    /\ raw_data = <<>> /\ cleaned_data = <<>> /\ fidx = 0
    /\ threshholded_data = <<>>
    /\ target = "none" /\ widx = 0
    /\ out = [f \in {"raw", "threshholded"} |-> NoFile]
    /\ openFiles = {}
    /\ printed = FALSE

----------------------------------------------------------------------------
(* main, line 158: the two shape scans *)

main_count ==
    /\ pc = "main"
    /\ LET r == count_rows(inputLines)
           f == count_frames(inputLines)
       IN  IF r.err # NoErr
           THEN /\ pc' = "error" /\ err' = Raise(r.err.type, "count_rows")
                /\ UNCHANGED <<n_roi, n_frames>>
           ELSE IF f.err # NoErr
           THEN /\ pc' = "error" /\ err' = Raise(f.err.type, "count_frames")
                /\ n_roi' = r.val /\ UNCHANGED n_frames
           ELSE /\ pc' = "file_parse" /\ n_roi' = r.val /\ n_frames' = f.val
                /\ UNCHANGED err
    /\ UNCHANGED <<inputLines, threshold, frame_idx, data_idx, data_matrix, writes,
                   idx, roi_ctr, frame_ctr, prev_frame, raw_data, cleaned_data, fidx,
                   threshholded_data, target, widx, out, openFiles, printed>>

(* file_parse, lines 102-106: recount, allocate the grid, zero the counters *)
file_parse_begin ==
    /\ pc = "file_parse"
    /\ LET r == count_rows(inputLines)
           f == count_frames(inputLines)
       IN  IF r.err # NoErr \/ f.err # NoErr
           THEN /\ pc' = "error"
                /\ err' = Raise(IF r.err # NoErr THEN r.err.type ELSE f.err.type,
                                "file_parse")
                /\ UNCHANGED <<data_matrix, writes, idx, roi_ctr, frame_ctr>>
           ELSE IF r.val = None
           THEN \* xrange(None)
                /\ pc' = "error" /\ err' = Raise("TypeError", "file_parse")
                /\ UNCHANGED <<data_matrix, writes, idx, roi_ctr, frame_ctr>>
           ELSE /\ data_matrix' = [i \in 1..f.val |-> [j \in 1..r.val |-> None]]
                /\ writes' = [i \in 1..f.val |-> [j \in 1..r.val |-> 0]]
                /\ roi_ctr' = 0 /\ frame_ctr' = 0 /\ idx' = 0
                /\ pc' = "fill"
                /\ UNCHANGED err
    /\ UNCHANGED <<inputLines, threshold, n_roi, n_frames, frame_idx, data_idx,
                   prev_frame, raw_data, cleaned_data, fidx, threshholded_data,
                   target, widx, out, openFiles, printed>>

\* float(data): the cells of the model are whole numbers, each exactly a float
float(data) == data

\* data_matrix[f][r] = v with zero-based f, r; IndexError outside the grid
InGrid(m, f, r) == f + 1 \in 1..Len(m) /\ r + 1 \in 1..Len(m[f + 1])
SetCell(m, f, r, v) == [m EXCEPT ![f + 1][r + 1] = v]

\* Mutant: the counter is reset only once it has passed n_roi
wrap_roi_ctr_Late(i, ctr, n) == IF i # 1 /\ ctr > n THEN 0 ELSE ctr

\* lines 118-119: the ROI counter wraps to 0 when it has reached n_roi
\* (not on the first data line)
wrap_roi_ctr(i, ctr, n) == IF i # 1 /\ ctr = n THEN 0 ELSE ctr

\* lines 120-121: the frame counter advances when the frame id changes
\* (not on the first data line)
advance_frame_ctr(i, ctr, current_frame, prev) ==
    IF i # 1 /\ current_frame # prev THEN ctr + 1 ELSE ctr

(* file_parse, lines 108-124: one iteration of the loop over the lines *)
file_parse_line ==
    /\ pc = "fill"
    /\ idx < Len(inputLines)
    /\ LET line == inputLines[idx + 1] IN
       IF idx = 0
       THEN LET h == get_indices_from_header(line) IN
            /\ frame_idx' = h.frame_idx /\ data_idx' = h.data_idx
            /\ idx' = idx + 1
            /\ UNCHANGED <<pc, err, data_matrix, writes, roi_ctr, frame_ctr, prev_frame>>
       ELSE LET e == extract_from_line(line, frame_idx, data_idx)
                current_frame == e[1]
                data == e[2]
                roi == wrap_roi_ctr(idx, roi_ctr, n_roi)
                frm == advance_frame_ctr(idx, frame_ctr, current_frame, prev_frame)
            IN  IF InGrid(data_matrix, frm, roi)
                THEN /\ data_matrix' = SetCell(data_matrix, frm, roi, float(data))
                     /\ writes' = SetCell(writes, frm, roi, writes[frm + 1][roi + 1] + 1)
                     /\ prev_frame' = current_frame
                     /\ frame_ctr' = frm
                     /\ roi_ctr' = roi + 1
                     /\ idx' = idx + 1
                     /\ UNCHANGED <<pc, err, frame_idx, data_idx>>
                ELSE /\ pc' = "error" /\ err' = Raise("IndexError", "file_parse")
                     /\ frame_ctr' = frm /\ roi_ctr' = roi
                     /\ UNCHANGED <<data_matrix, writes, prev_frame, idx,
                                    frame_idx, data_idx>>
    /\ UNCHANGED <<inputLines, threshold, n_roi, n_frames, raw_data, cleaned_data,
                   fidx, threshholded_data, target, widx, out, openFiles, printed>>

(* file_parse line 125 and main lines 159-160: return the transposed grid, *)
(* call write_file for the raw file                                        *)
file_parse_return ==
    /\ pc = "fill"
    /\ idx = Len(inputLines)
    /\ raw_data' = transpose(data_matrix)
    /\ target' = "raw"
    /\ pc' = "write_open"
    /\ UNCHANGED <<inputLines, threshold, err, n_roi, n_frames, frame_idx, data_idx,
                   data_matrix, writes, idx, roi_ctr, frame_ctr, prev_frame,
                   cleaned_data, fidx, threshholded_data, widx, out, openFiles,
                   printed>>

----------------------------------------------------------------------------
(* write_file *)

\* str(): a float prints as its digits, None as the word None; written here as
\* a tagged tuple, the text of the field
str(item) == IF item = None THEN <<"None">> ELSE <<"float", item>>

\* str(col_label_prefix) + str(i)
ColLabel(i) == <<COLUMN_LABEL, i>>

\* Mutant: rows numbered from 1
RowLabel_OneBased(i) == <<ROW_LABEL, i + 1>>

\* str(row_label_prefix) + str(idx)
RowLabel(i) == <<ROW_LABEL, i>>

\* fo.write(field + '\t'): one more tab-terminated field on the current line
WriteField(file, field) == [file EXCEPT ![Len(file)] = Append(@, field)]

\* fo.write('\n'): the current line ends, an empty one begins
WriteNewline(file) == Append(file, <<>>)

RECURSIVE WriteFields(_, _)
WriteFields(file, fields) ==
    IF fields = <<>> THEN file
    ELSE WriteFields(WriteField(file, Head(fields)), Tail(fields))

\* The argument main passed as data
WriteData == IF target = "raw" THEN raw_data ELSE threshholded_data

(* write_file, lines 142-147: open (create or truncate) the file, take the *)
(* column count from the first row, write the header line                  *)
write_file_open ==
    /\ pc = "write_open"
    /\ LET data == WriteData
           opened == << <<>> >>
       IN  IF data = <<>>
           THEN \* data[0] on an empty list; the with block closes the file
                /\ out' = [out EXCEPT ![target] = opened]
                /\ pc' = "error" /\ err' = Raise("IndexError", "write_file")
                /\ UNCHANGED <<widx, openFiles>>
           ELSE LET ncol == Len(data[1])
                    labels == [i \in 1..ncol |-> ColLabel(i - 1)]
                IN  /\ out' = [out EXCEPT ![target] =
                           WriteNewline(WriteFields(WriteField(opened, <<>>), labels))]
                    /\ openFiles' = openFiles \cup {target}
                    /\ widx' = 0
                    /\ pc' = "write_rows"
                    /\ UNCHANGED err
    /\ UNCHANGED <<inputLines, threshold, n_roi, n_frames, frame_idx, data_idx,
                   data_matrix, writes, idx, roi_ctr, frame_ctr, prev_frame, raw_data,
                   cleaned_data, fidx, threshholded_data, target, printed>>

(* write_file, lines 148-152: one row of the matrix *)
write_file_row ==
    /\ pc = "write_rows"
    /\ widx < Len(WriteData)
    /\ LET line == WriteData[widx + 1]
           items == [i \in 1..Len(line) |-> str(line[i])]
       IN  out' = [out EXCEPT ![target] =
               WriteNewline(WriteFields(WriteField(@, RowLabel(widx)), items))]
    /\ widx' = widx + 1
    /\ UNCHANGED <<inputLines, threshold, pc, err, n_roi, n_frames, frame_idx,
                   data_idx, data_matrix, writes, idx, roi_ctr, frame_ctr, prev_frame,
                   raw_data, cleaned_data, fidx, threshholded_data, target, openFiles,
                   printed>>

(* write_file, line 153: the file is closed and control returns to main,   *)
(* which goes on to the filter (line 161) or to its message (line 163)     *)
write_file_return ==
    /\ pc = "write_rows"
    /\ widx = Len(WriteData)
    /\ openFiles' = openFiles \ {target}
    /\ IF target = "raw"
       THEN /\ pc' = "select" /\ cleaned_data' = <<>> /\ fidx' = 0
       ELSE /\ pc' = "print" /\ UNCHANGED <<cleaned_data, fidx>>
    /\ UNCHANGED <<inputLines, threshold, err, n_roi, n_frames, frame_idx, data_idx,
                   data_matrix, writes, idx, roi_ctr, frame_ctr, prev_frame, raw_data,
                   threshholded_data, target, widx, out, printed>>

----------------------------------------------------------------------------
(* select_cells_with_activity *)

\* Python 2's max and min of a list: None sorts below every number
RECURSIVE pymax(_)
pymax(row) ==
    IF Len(row) = 1 THEN row[1]
    ELSE LET m == pymax(Tail(row)) IN IF row[1] >= m THEN row[1] ELSE m

RECURSIVE pymin(_)
pymin(row) ==
    IF Len(row) = 1 THEN row[1]
    ELSE LET m == pymin(Tail(row)) IN IF row[1] <= m THEN row[1] ELSE m

\* Mutants of the test: a strict comparison; the minimum not subtracted
IsActive_Strict(row, activity_threshhold) ==
    pymax(row) - pymin(row) > activity_threshhold

IsActive_MaxOnly(row, activity_threshhold) == pymax(row) >= activity_threshhold

\* line 136: the test of one row
IsActive(row, activity_threshhold) == pymax(row) - pymin(row) >= activity_threshhold

(* select_cells_with_activity, lines 135-137: one iteration of the loop *)
select_step ==
    /\ pc = "select"
    /\ fidx < Len(raw_data)
    /\ LET row == raw_data[fidx + 1] IN
       IF pymin(row) = None
       THEN \* a number minus None
            /\ pc' = "error"
            /\ err' = Raise("TypeError", "select_cells_with_activity")
            /\ UNCHANGED <<cleaned_data, fidx>>
       ELSE /\ cleaned_data' = IF IsActive(row, threshold)
                               THEN Append(cleaned_data, row) ELSE cleaned_data
            /\ fidx' = fidx + 1
            /\ UNCHANGED <<pc, err>>
    /\ UNCHANGED <<inputLines, threshold, n_roi, n_frames, frame_idx, data_idx,
                   data_matrix, writes, idx, roi_ctr, frame_ctr, prev_frame, raw_data,
                   threshholded_data, target, widx, out, openFiles, printed>>

(* select_cells_with_activity line 138 and main lines 161-162: return the  *)
(* kept rows, call write_file for the threshholded file                    *)
select_return ==
    /\ pc = "select"
    /\ fidx = Len(raw_data)
    /\ threshholded_data' = cleaned_data
    /\ target' = "threshholded"
    /\ pc' = "write_open"
    /\ UNCHANGED <<inputLines, threshold, err, n_roi, n_frames, frame_idx, data_idx,
                   data_matrix, writes, idx, roi_ctr, frame_ctr, prev_frame, raw_data,
                   cleaned_data, fidx, widx, out, openFiles, printed>>

(* main, line 163: the final message *)
main_print ==
    /\ pc = "print"
    /\ printed' = TRUE
    /\ pc' = "done"
    /\ UNCHANGED <<inputLines, threshold, err, n_roi, n_frames, frame_idx, data_idx,
                   data_matrix, writes, idx, roi_ctr, frame_ctr, prev_frame, raw_data,
                   cleaned_data, fidx, threshholded_data, target, widx, out, openFiles>>

----------------------------------------------------------------------------
Next ==
    \/ main_count
    \/ file_parse_begin
    \/ file_parse_line
    \/ file_parse_return
    \/ write_file_open
    \/ write_file_row
    \/ write_file_return
    \/ select_step
    \/ select_return
    \/ main_print

Spec == Init /\ [][Next]_vars

SpecExample == InitExample /\ [][Next]_vars

----------------------------------------------------------------------------
(* Vocabulary of the properties, defined on the input file and the outputs *)
(* without the operators of the pipeline                                   *)

Range(seq) == { seq[i] : i \in 1..Len(seq) }

SetMax(S) == CHOOSE x \in S : \A y \in S : y <= x
SetMin(S) == CHOOSE x \in S : \A y \in S : x <= y

\* max - min of a row of numbers
RowRange(row) == SetMax(Range(row)) - SetMin(Range(row))

\* The j-th smallest element of a set of numbers, j = 1 for the smallest
Nth(S, j) == CHOOSE x \in S : Cardinality({ y \in S : y <= x }) = j

HasHeader == inputLines # <<>>
HeaderOK ==
    /\ HasHeader
    /\ FRAME_HEADER \in Range(inputLines[1])
    /\ DATA_TO_EXTRACT \in Range(inputLines[1])
HeaderMissing == HasHeader /\ ~HeaderOK

ColumnOf(name) == CHOOSE c \in 1..Len(inputLines[1]) : inputLines[1][c] = name

\* The data records, numbered from 0 in file order
NRec == Len(inputLines) - 1
RecFrame(k) == inputLines[k + 2][ColumnOf(FRAME_HEADER)]
RecValue(k) == inputLines[k + 2][ColumnOf(DATA_TO_EXTRACT)]

\* R ROIs and F frames in strict round-robin order
RoundRobin(R, F) ==
    /\ HeaderOK
    /\ NRec = R * F
    /\ \A k, l \in 0..(NRec - 1) :
          /\ (k \div R = l \div R) => RecFrame(k) = RecFrame(l)
          /\ (k \div R + 1 = l \div R) => RecFrame(k) # RecFrame(l)

Shapes == (1..MaxRecords) \X (1..MaxRecords)

FailedBeforeOutput ==
    pc = "error" /\ err.in \in {"count_rows", "count_frames", "file_parse"}

\* file_parse has returned its matrix to main
FileParseReturned == target # "none"

\* select_cells_with_activity has returned its list to main
SelectReturned == target = "threshholded"

\* write_file has ended for the file f, by return or by exception
WriteEnded(f) ==
    IF f = "raw" THEN pc = "select" \/ SelectReturned
                      \/ (pc = "error" /\ err.in = "select_cells_with_activity")
    ELSE pc \in {"print", "done"}
         \/ (pc = "error" /\ err.in = "write_file" /\ target = "threshholded")

\* write_file has returned normally for the file f
WriteReturned(f) ==
    IF f = "raw" THEN WriteEnded("raw") ELSE pc \in {"print", "done"}

DataOf(f) == IF f = "raw" THEN raw_data ELSE threshholded_data

\* The text the writer is to produce for a matrix
ExpectedHeaderLine(ncol) == << <<>> >> \o [i \in 1..ncol |-> <<COLUMN_LABEL, i - 1>>]
ExpectedRowLine(k, row) ==
    << <<ROW_LABEL, k>> >> \o
    [i \in 1..Len(row) |-> IF row[i] = None THEN <<"None">> ELSE <<"float", row[i]>>]
ExpectedFile(data) ==
    << ExpectedHeaderLine(IF data = <<>> THEN 0 ELSE Len(data[1])) >>
    \o [k \in 1..Len(data) |-> ExpectedRowLine(k - 1, data[k])]
    \o << <<>> >>

\* Indices (from 1) of the rows of the raw matrix whose range reaches the threshold
Kept == { i \in 1..Len(raw_data) : RowRange(raw_data[i]) >= threshold }

----------------------------------------------------------------------------
(* C1: for every R >= 1 and F >= 1, on R ROIs and F frames in strict       *)
(* round-robin order file_parse returns (it does not raise) a matrix of    *)
(* exactly R rows and F columns.                                           *)
C1_Dimensions ==
    \A s \in Shapes :
        RoundRobin(s[1], s[2]) =>
            /\ ~FailedBeforeOutput
            /\ FileParseReturned =>
                  /\ Len(raw_data) = s[1]
                  /\ \A i \in 1..Len(raw_data) : Len(raw_data[i]) = s[2]

(* C1, the part the code keeps: the same with at least two frames.         *)
C1_DimensionsFromTwoFrames ==
    \A s \in Shapes :
        (RoundRobin(s[1], s[2]) /\ s[2] >= 2) =>
            /\ ~FailedBeforeOutput
            /\ FileParseReturned =>
                  /\ Len(raw_data) = s[1]
                  /\ \A i \in 1..Len(raw_data) : Len(raw_data[i]) = s[2]

----------------------------------------------------------------------------
(* C2: select_cells_with_activity returns exactly the rows of its input    *)
(* whose max - min is >= the threshold, in their original order, each once *)
(* and unaltered: the j-th returned row is the row at the j-th smallest    *)
(* kept index, and there are as many returned rows as kept indices.        *)
C2_FilterIsSubsequence ==
    SelectReturned =>
        /\ Len(threshholded_data) = Cardinality(Kept)
        /\ \A j \in 1..Len(threshholded_data) :
              threshholded_data[j] = raw_data[Nth(Kept, j)]
        /\ \A i \in 1..Len(raw_data) :
              i \notin Kept => RowRange(raw_data[i]) < threshold

C2_Witness ==
    /\ SelectReturned
    /\ \E i, j \in 1..Len(raw_data) : i < j /\ i \notin Kept /\ j \in Kept
    /\ \E i, j \in 1..Len(raw_data) : i < j /\ i \in Kept /\ j \notin Kept

----------------------------------------------------------------------------
(* C3: on the example (2 ROIs, 3 frames, values 1, 5, 2, 9, 3, 20 in       *)
(* record order) file_parse returns the rows [1,9,3] and [5,2,20], and     *)
(* with threshold 15 the filter returns the row [5,2,20] alone.            *)
IsExample ==
    /\ inputLines = <<ExampleHeader>> \o
          [k \in 1..6 |-> <<ExampleFrames[k], ExampleValues[k]>>]
    /\ threshold = 15

C3_Example ==
    IsExample =>
        /\ ~FailedBeforeOutput
        /\ FileParseReturned => raw_data = << <<1, 9, 3>>, <<5, 2, 20>> >>
        /\ SelectReturned => threshholded_data = << <<5, 2, 20>> >>

(* C3 as the code has it: on the same input file_parse returns the rows    *)
(* [1,2,3] and [5,9,20] (record k at row k mod 2, column k div 2), and     *)
(* with threshold 15 the filter returns the row [5,9,20] alone, whose      *)
(* range is 15; main then ends normally.                                   *)
C3_ExampleAmended ==
    IsExample =>
        /\ pc # "error"
        /\ FileParseReturned => raw_data = << <<1, 2, 3>>, <<5, 9, 20>> >>
        /\ SelectReturned =>
              /\ threshholded_data = << <<5, 9, 20>> >>
              /\ RowRange(threshholded_data[1]) = 15

C3_Witness == IsExample /\ pc = "done" /\ threshholded_data = << <<5, 9, 20>> >>

----------------------------------------------------------------------------
(* C4: when the header line lacks the frame field or the data field, the   *)
(* first scan (count_rows, called from main) raises ValueError, nothing    *)
(* runs after it, and neither output file is ever opened or written.       *)
C4_MissingFieldIsFatal ==
    HeaderMissing =>
        /\ pc \in {"main", "error"}
        /\ pc = "error" => err = Raise("ValueError", "count_rows")
        /\ out["raw"] = NoFile /\ out["threshholded"] = NoFile
        /\ openFiles = {}
        /\ ~printed

C4_Witness == HeaderMissing /\ pc = "error" /\ NRec >= 2

----------------------------------------------------------------------------
(* C5: for every matrix main passes to write_file, once write_file has     *)
(* ended the file holds the header line (blank field, then the column      *)
(* labels 0 .. ncol-1), then one line per row in order, the k-th starting  *)
(* with the row label k followed by the row's values.                      *)
C5_WrittenFormat ==
    \A f \in {"raw", "threshholded"} :
        WriteEnded(f) => out[f] = ExpectedFile(DataOf(f))

(* C5, the part the code keeps: the same for a matrix with at least one row *)
C5_WrittenFormatNonEmpty ==
    \A f \in {"raw", "threshholded"} :
        (WriteEnded(f) /\ DataOf(f) # <<>>) => out[f] = ExpectedFile(DataOf(f))

----------------------------------------------------------------------------
(* C6: on strict round-robin input with R ROIs and F frames file_parse     *)
(* does not raise, assigns every cell of the grid exactly once, puts the   *)
(* value of record k at row k mod R, column k div R of the returned        *)
(* matrix, and resets the ROI counter at a record exactly when the counter *)
(* has reached R, which is exactly when the frame id changes there.        *)
C6_Placement ==
    \A s \in Shapes :
        RoundRobin(s[1], s[2]) =>
            /\ ~FailedBeforeOutput
            /\ (pc = "fill" /\ idx >= 2 /\ idx < Len(inputLines)) =>
                  /\ (roi_ctr = n_roi) <=> (RecFrame(idx - 1) # prev_frame)
                  /\ (roi_ctr = n_roi) <=> (roi_ctr = s[1])
            /\ FileParseReturned =>
                  /\ \A f \in 1..Len(writes) : \A r \in 1..Len(writes[f]) :
                        writes[f][r] = 1
                  /\ Len(writes) = s[2]
                  /\ \A f \in 1..Len(writes) : Len(writes[f]) = s[1]
                  /\ \A k \in 0..(NRec - 1) :
                        raw_data[(k % s[1]) + 1][(k \div s[1]) + 1] = RecValue(k)

(* C6, the part the code keeps: the same with at least two frames.         *)
C6_PlacementFromTwoFrames ==
    \A s \in Shapes :
        (RoundRobin(s[1], s[2]) /\ s[2] >= 2) =>
            /\ ~FailedBeforeOutput
            /\ (pc = "fill" /\ idx >= 2 /\ idx < Len(inputLines)) =>
                  /\ (roi_ctr = n_roi) <=> (RecFrame(idx - 1) # prev_frame)
                  /\ (roi_ctr = n_roi) <=> (roi_ctr = s[1])
            /\ FileParseReturned =>
                  /\ \A f \in 1..Len(writes) : \A r \in 1..Len(writes[f]) :
                        writes[f][r] = 1
                  /\ Len(writes) = s[2]
                  /\ \A f \in 1..Len(writes) : Len(writes[f]) = s[1]
                  /\ \A k \in 0..(NRec - 1) :
                        raw_data[(k % s[1]) + 1][(k \div s[1]) + 1] = RecValue(k)

----------------------------------------------------------------------------
(* C7: on an input with at least two distinct frame ids whose record count *)
(* differs from count_rows x count_frames, file_parse raises nothing and   *)
(* returns a matrix with a cell assigned more than once or a cell never    *)
(* assigned, which still holds None.                                       *)
Irregular ==
    /\ HeaderOK
    /\ \E k, l \in 0..(NRec - 1) : RecFrame(k) # RecFrame(l)
    /\ count_rows(inputLines).val # None
    /\ NRec # count_rows(inputLines).val * count_frames(inputLines).val

C7_SilentMisfill ==
    Irregular =>
        /\ ~FailedBeforeOutput
        /\ pc = "fill" => idx <= Len(inputLines)
        /\ FileParseReturned =>
              \E f \in 1..Len(writes) : \E r \in 1..Len(writes[f]) :
                  \/ writes[f][r] > 1
                  \/ writes[f][r] = 0 /\ raw_data[r][f] = None

C7_Witness ==
    /\ Irregular
    /\ FileParseReturned
    /\ \E f \in 1..Len(writes) : \E r \in 1..Len(writes[f]) :
          writes[f][r] = 0 /\ raw_data[r][f] = None

----------------------------------------------------------------------------
(* C8: on any input for which count_rows returns an integer, every         *)
(* assignment to the grid in file_parse is inside it: the fill raises no   *)
(* IndexError, after each assignment 0 <= frame_ctr < n_frames and the     *)
(* ROI index just used, roi_ctr - 1, is in 0 .. n_roi - 1, and frame_ctr   *)
(* counts the frame-id changes among the records read so far, ending at    *)
(* n_frames - 1.                                                           *)
CountRowsReturnsInt ==
    /\ HeaderOK
    /\ \E k \in 0..(NRec - 1) : RecFrame(k) # RecFrame(0)

Transitions(n) ==
    Cardinality({ k \in 1..(n - 1) : RecFrame(k) # RecFrame(k - 1) })

C8_FillStaysInGrid ==
    CountRowsReturnsInt =>
        /\ err # Raise("IndexError", "file_parse")
        /\ ~FailedBeforeOutput
        /\ (pc = "fill" \/ FileParseReturned) =>
              /\ Len(data_matrix) = n_frames
              /\ \A f \in 1..Len(data_matrix) : Len(data_matrix[f]) = n_roi
        /\ ((pc = "fill" /\ idx >= 2) \/ FileParseReturned) =>
              /\ 0 <= frame_ctr /\ frame_ctr < n_frames
              /\ 0 <= roi_ctr - 1 /\ roi_ctr - 1 < n_roi
              /\ frame_ctr = Transitions(idx - 1)
        /\ FileParseReturned => frame_ctr = n_frames - 1

C8_Witness ==
    /\ CountRowsReturnsInt
    /\ Irregular
    /\ FileParseReturned
    /\ roi_ctr = n_roi
    /\ n_roi >= 2

----------------------------------------------------------------------------
(* C9: when every row of the raw matrix has a range below the threshold,   *)
(* main does not end normally: the filter returns the empty list,          *)
(* write_file raises on it, and then the raw file is complete and closed,  *)
(* the threshholded file exists and is empty, and the final message is     *)
(* not printed.                                                            *)
Numeric(data) == \A i \in 1..Len(data) : None \notin Range(data[i])

NoActiveRow ==
    /\ FileParseReturned
    /\ Numeric(raw_data)
    /\ \A i \in 1..Len(raw_data) : RowRange(raw_data[i]) < threshold

C9_EmptyFilterCrashes ==
    NoActiveRow =>
        /\ pc \notin {"print", "done"}
        /\ ~printed
        /\ SelectReturned => threshholded_data = <<>>
        /\ (SelectReturned /\ pc # "write_open") =>
              /\ pc = "error"
              /\ err = Raise("IndexError", "write_file")
              /\ out["raw"] = ExpectedFile(raw_data)
              /\ openFiles = {}
              /\ out["threshholded"] = << <<>> >>
        /\ pc = "error" => (SelectReturned /\ err.in = "write_file")

C9_Witness ==
    /\ NoActiveRow
    /\ pc = "error"
    /\ Len(raw_data) >= 2
    /\ \E i \in 1..Len(raw_data) : RowRange(raw_data[i]) > 0

----------------------------------------------------------------------------
(* C10: in the threshholded file the retained rows are labelled            *)
(* 0 .. k-1 by their position in the filtered list; a retained row has the *)
(* same label in the raw file and in the threshholded file if and only if  *)
(* no row before it in the raw matrix was dropped.                         *)
RowLabelIn(f, line) == out[f][line + 1][1]

C10_LabelsByPosition ==
    WriteReturned("threshholded") =>
        /\ Len(out["threshholded"]) = Cardinality(Kept) + 2
        /\ \A j \in 1..Cardinality(Kept) :
              /\ RowLabelIn("threshholded", j) = <<ROW_LABEL, j - 1>>
              /\ Tail(out["threshholded"][j + 1]) = Tail(out["raw"][Nth(Kept, j) + 1])
              /\ (RowLabelIn("threshholded", j) = RowLabelIn("raw", Nth(Kept, j)))
                    <=> (\A i \in 1..(Nth(Kept, j) - 1) : i \in Kept)

C10_Witness ==
    /\ WriteReturned("threshholded")
    /\ \E i, j \in 1..Len(raw_data) : i < j /\ i \notin Kept /\ j \in Kept
    /\ 1 \in Kept
====
